---- MODULE Spec2Model ----
(***************************************************************************)
(* Model of the idle-triggered screensaver of this repository:             *)
(*   - the lifecycle state machine of ScreensaverPreferences               *)
(*     (src/legacy/screensaver_preferences_qt6.py),                        *)
(*   - the interrupt-counter activity polls of the Matrix and Mystify      *)
(*     widgets and of the lifecycle fallback,                              *)
(*   - the emergency CPU throttle of the two animation widgets.            *)
(* Time is counted in whole seconds.                                       *)
(***************************************************************************)
EXTENDS Integers, Sequences, FiniteSets, TLC

VARIABLES
    settings,            \* self.settings: enabled, *_mode, show_stats, lock_timeout, slideshow_folder
    combo,               \* screensaver_type_combo.currentText()
    screensaver_timer,   \* screensaver_timer.isActive()
    progress_timer,      \* progress_timer.isActive()
    activity_timer,      \* activity_timer.isActive()
    last_activity_time,  \* self.last_activity_time
    now,                 \* time.time()
    screensaver_active,  \* self.screensaver_active
    is_test_mode,        \* self.is_test_mode
    visible,             \* self.isVisible()
    running,             \* the Qt event loop has not been quit
    active_screensaver,  \* self.active_screensaver (NoWidget when the attribute is absent)
    test_screensaver,    \* self.sidekick_screensaver / mystify_screensaver / slideshow_screensaver
    interrupt_baseline,  \* self._interrupt_baseline (NoBaseline when the attribute is absent)
    irq_total,           \* sum of the input-class counters of /proc/interrupts
    session,             \* history: per widget slot, the session's state and its exit-handler calls
    engine,              \* one effect engine: kind, target_fps, is_emergency_throttled, timer interval
    cpu_history,         \* history: the emergency checks made and the flag changes they caused
    mystify,             \* one MystifyWidget: quality, trail length, shapes and trails, frame counter
    column,              \* one MatrixColumn and the last operation applied to it
    calc,                \* the last call of one of the program's pure functions, with its result
    colours,             \* per shape of the MystifyWidget: color_hue, color_shift, curve_tension
    v4,                  \* one ScreensaverPreferencesV4 controller and the processes it launched
    environment          \* of the MystifyWidget: whether the load has become light for good,
                         \* and whether 30 s have passed since _last_activity_check was set

lifeVars == <<settings, combo, screensaver_timer, progress_timer, activity_timer,
              last_activity_time, now, screensaver_active, is_test_mode, visible,
              running, active_screensaver, test_screensaver, interrupt_baseline,
              irq_total, session>>

engineVars == <<engine, cpu_history>>

simVars == <<mystify, column, calc, colours, v4, environment>>

vars == <<lifeVars, engineVars, simVars>>

----------------------------------------------------------------------------
\* Bounds of the model

MaxTime == 6
MaxLockTimeout == 2
MaxInputs == 1
MaxSessionTime == 12
MaxSessionInputs == 3
MaxChecks == 6

\* Program constants

MystifyThreshold == 50
MatrixThreshold == 0
GracePeriod == 10

\* "no baseline yet": usb_interrupt_baseline = None / no _interrupt_baseline attribute
NoBaseline == -1
NoWidget == [kind |-> "none"]

Kinds == {"Matrix", "Mystify", "Slideshow"}
ComboItems == {"None", "Matrix", "Mystify", "Slideshow"}

----------------------------------------------------------------------------
\* The lifecycle object as one record, so that a handler is a function from
\* the state before it to the state after it and handlers compose as calls.

S == [settings |-> settings, combo |-> combo,
      screensaver_timer |-> screensaver_timer, progress_timer |-> progress_timer,
      activity_timer |-> activity_timer, last_activity_time |-> last_activity_time,
      now |-> now, screensaver_active |-> screensaver_active,
      is_test_mode |-> is_test_mode, visible |-> visible, running |-> running,
      active_screensaver |-> active_screensaver, test_screensaver |-> test_screensaver,
      interrupt_baseline |-> interrupt_baseline, irq_total |-> irq_total,
      session |-> session]

Becomes(s) ==
    /\ settings' = s.settings
    /\ combo' = s.combo
    /\ screensaver_timer' = s.screensaver_timer
    /\ progress_timer' = s.progress_timer
    /\ activity_timer' = s.activity_timer
    /\ last_activity_time' = s.last_activity_time
    /\ now' = s.now
    /\ screensaver_active' = s.screensaver_active
    /\ is_test_mode' = s.is_test_mode
    /\ visible' = s.visible
    /\ running' = s.running
    /\ active_screensaver' = s.active_screensaver
    /\ test_screensaver' = s.test_screensaver
    /\ interrupt_baseline' = s.interrupt_baseline
    /\ irq_total' = s.irq_total
    /\ session' = s.session
    /\ UNCHANGED <<engineVars, simVars>>


\* A freshly constructed effect widget (MatrixWidget / MystifyWidget / SlideshowWidget)
NewWidget(kind, show_stats, t) ==
    [kind |-> kind,
     usb_monitor_timer |-> CASE kind = "Matrix" -> TRUE
                             [] kind = "Mystify" -> ~show_stats
                             [] OTHER -> FALSE,
     usb_interrupt_baseline |-> NoBaseline,
     screensaver_start_time |-> t,
     mouse_seen |-> FALSE,
     open |-> TRUE]

NewSession == [state |-> "open", exits |-> 0]
NoSession == [state |-> "none", exits |-> 0]

----------------------------------------------------------------------------
\* Timer helpers of ScreensaverPreferences

stop_all_timers_for_gui(s) ==
    [s EXCEPT !.screensaver_timer = FALSE, !.progress_timer = FALSE,
              !.activity_timer = FALSE]

start_automatic_monitoring(s) ==
    IF ~s.settings.enabled THEN s
    ELSE [s EXCEPT !.last_activity_time = s.now,
                   !.screensaver_active = FALSE,
                   !.activity_timer = TRUE,
                   !.screensaver_timer = TRUE,
                   !.progress_timer = TRUE]

reset_screensaver_timer(s) ==
    [s EXCEPT !.last_activity_time = s.now,
              !.screensaver_active = FALSE,
              !.screensaver_timer = FALSE, !.progress_timer = FALSE,
              !.activity_timer = FALSE]

restart_timers_after_test(s) ==
    IF s.settings.enabled /\ ~s.is_test_mode
    THEN start_automatic_monitoring([s EXCEPT !.last_activity_time = s.now])
    ELSE s

----------------------------------------------------------------------------
\* Activation (check_screensaver_timeout -> activate_screensaver -> activate_*)
\* `fail` is the environment's choice that constructing the widget raises.

Launch(s, kind, fail) ==
    IF fail
    THEN \* the window was hidden before the constructor raised; the except
         \* branch shows it again
         [s EXCEPT !.visible = TRUE]
    ELSE [s EXCEPT !.visible = FALSE,
                   !.active_screensaver =
                        NewWidget(kind, s.settings.show_stats, s.now),
                   !.session.active = NewSession]

activate_sidekick_screensaver(s, fail) == Launch(s, "Matrix", fail)

activate_slideshow_screensaver(s, fail) == Launch(s, "Slideshow", fail)

activate_mystify_screensaver(s, fail) ==
    Launch([s EXCEPT !.screensaver_timer = FALSE, !.progress_timer = FALSE,
                     !.activity_timer = FALSE], "Mystify", fail)

\* The type activate_screensaver derives from the saved settings
SavedType(st) ==
    IF ~st.enabled THEN "None"
    ELSE IF st.slideshow_mode THEN "Slideshow"
    ELSE IF st.mystify_mode THEN "Mystify"
    ELSE "Matrix"

\* Variant: the type is read from the dropdown
activate_screensaver_FromDropdown(s, fail) ==
    LET s1 == [s EXCEPT !.screensaver_active = TRUE,
                        !.is_test_mode = FALSE,
                        !.progress_timer = FALSE,
                        !.screensaver_timer = FALSE]
        ty == s1.combo
    IN  CASE ty = "Slideshow" -> activate_slideshow_screensaver(s1, fail)
          [] ty = "Mystify"   -> activate_mystify_screensaver(s1, fail)
          [] ty = "Matrix"    -> activate_sidekick_screensaver(s1, fail)
          [] OTHER            -> s1

activate_screensaver(s, fail) ==
    LET s1 == [s EXCEPT !.screensaver_active = TRUE,
                        !.is_test_mode = FALSE,
                        !.progress_timer = FALSE,
                        !.screensaver_timer = FALSE]
        ty == SavedType(s1.settings)
    IN  CASE ty = "Slideshow" -> activate_slideshow_screensaver(s1, fail)
          [] ty = "Mystify"   -> activate_mystify_screensaver(s1, fail)
          [] ty = "Matrix"    -> activate_sidekick_screensaver(s1, fail)
          [] OTHER            -> s1

\* Variant: the timeout compared strictly
TimeoutReachedStrict(s) == s.now - s.last_activity_time > s.settings.lock_timeout

TimeoutReached(s) ==
    s.now - s.last_activity_time >= s.settings.lock_timeout

\* Variant: the timeout is checked during a test preview as well
check_screensaver_timeout_InTestMode(s, fail) ==
    IF TimeoutReached(s) /\ ~s.screensaver_active
    THEN activate_screensaver(s, fail)
    ELSE s

check_screensaver_timeout(s, fail) ==
    IF s.is_test_mode THEN s
    ELSE IF TimeoutReached(s) /\ ~s.screensaver_active
         THEN activate_screensaver(s, fail)
         ELSE s

----------------------------------------------------------------------------
\* Exit handlers of the lifecycle

\* Variant: the exit handler leaves the effect object in place
on_screensaver_exit_KeepsWidget(s) ==
    LET s2 == [s EXCEPT !.screensaver_active = FALSE, !.last_activity_time = s.now,
                        !.session.active.exits = @ + 1]
        s3 == IF s2.settings.enabled THEN start_automatic_monitoring(s2) ELSE s2
    IN  [s3 EXCEPT !.visible = s.is_test_mode, !.is_test_mode = FALSE]

on_screensaver_exit(s) ==
    LET s1 == IF s.active_screensaver # NoWidget
              THEN [s EXCEPT !.active_screensaver = NoWidget,
                             !.session.active.state = "ended"]
              ELSE s
        s2 == [s1 EXCEPT !.screensaver_active = FALSE,
                         !.last_activity_time = s.now,
                         !.session.active.exits = @ + 1]
        s3 == IF s2.settings.enabled THEN start_automatic_monitoring(s2) ELSE s2
    IN  [s3 EXCEPT !.visible = s.is_test_mode, !.is_test_mode = FALSE]

\* on_sidekick_test_finished / on_slideshow_test_finished / on_mystify_test_finished
on_test_finished(s) ==
    LET s1 == [s EXCEPT !.is_test_mode = FALSE,
                        !.session.test.exits = @ + 1]
        s2 == IF s1.test_screensaver # NoWidget
              THEN [s1 EXCEPT !.test_screensaver = NoWidget,
                              !.session.test.state = "ended"]
              ELSE s1
        s3 == restart_timers_after_test(s2)
    IN  [s3 EXCEPT !.running = FALSE]

kill_screensaver_immediately(s) ==
    IF s.test_screensaver # NoWidget
    THEN [s EXCEPT !.test_screensaver = NoWidget,
                   !.session.test.state = "ended"]
    ELSE s

----------------------------------------------------------------------------
\* ActivitySignal: the baseline-diff poll shared by the three call sites.
\* Returns the new baseline and whether activity is reported.

\* Variant: a difference equal to the threshold already counts as activity
Poll_AtThreshold(baseline, total, threshold) ==
    IF baseline = NoBaseline
    THEN [baseline |-> total, detected |-> FALSE]
    ELSE [baseline |-> total, detected |-> (total - baseline >= threshold)]

Poll(baseline, total, threshold) ==
    IF baseline = NoBaseline
    THEN [baseline |-> total, detected |-> FALSE]
    ELSE [baseline |-> total, detected |-> (total - baseline > threshold)]

\* Variant: a failed read counts as a total of zero
MatrixPoll_ZeroOnError(w, readable, total, t) ==
    LET r == Poll(w.usb_interrupt_baseline, IF readable THEN total ELSE 0, MatrixThreshold)
    IN  [w |-> [w EXCEPT !.usb_interrupt_baseline = r.baseline],
         emit |-> r.detected]

\* MatrixWidget.check_usb_activity; `readable` is whether /proc/interrupts
\* could be read
MatrixPoll(w, readable, total, t) ==
    IF ~readable THEN [w |-> w, emit |-> FALSE]
    ELSE LET r == Poll(w.usb_interrupt_baseline, total, MatrixThreshold)
         IN  [w |-> [w EXCEPT !.usb_interrupt_baseline = r.baseline],
              emit |-> r.detected]

\* MystifyWidget.check_usb_activity
MystifyPoll(w, readable, total, t) ==
    IF t - w.screensaver_start_time < GracePeriod THEN [w |-> w, emit |-> FALSE]
    ELSE IF ~readable THEN [w |-> w, emit |-> FALSE]
    ELSE LET r == Poll(w.usb_interrupt_baseline, total, MystifyThreshold)
         IN  [w |-> [w EXCEPT !.usb_interrupt_baseline = r.baseline],
              emit |-> r.detected]

\* ScreensaverPreferences.check_activity_fallback
check_activity_fallback(s, readable) ==
    IF ~readable THEN [s |-> s, detected |-> FALSE]
    ELSE LET r == Poll(s.interrupt_baseline, s.irq_total, MatrixThreshold)
         IN  [s |-> [s EXCEPT !.interrupt_baseline = r.baseline],
              detected |-> r.detected]

\* ScreensaverPreferences.check_user_activity.  xp is what running xprintidle
\* gave: "recent" (idle < 3 s), "idle", "fail" (non-zero exit) or "error"
\* (it raised); mouse is the result of check_usb_mouse_activity.
check_user_activity(s, xp, readable, mouse) ==
    CASE xp = "fail" -> check_activity_fallback(s, readable).s
      [] xp = "error" ->
            LET f  == check_activity_fallback(s, readable)
                s1 == IF f.detected \/ mouse
                      THEN [f.s EXCEPT !.last_activity_time = s.now]
                      ELSE f.s
            IN  kill_screensaver_immediately(
                    [s1 EXCEPT !.screensaver_active = FALSE])
      [] OTHER -> s

\* What check_user_activity computed as "activity detected"
ActivitySeen(s, xp, readable, mouse) ==
    CASE xp = "recent" -> TRUE
      [] xp = "idle"   -> FALSE
      [] xp = "fail"   -> check_activity_fallback(s, readable).detected
      [] OTHER         -> check_activity_fallback(s, readable).detected \/ mouse

----------------------------------------------------------------------------
\* Test previews

LaunchTest(s, kind, fail) ==
    IF fail
    THEN restart_timers_after_test([s EXCEPT !.visible = TRUE])
    ELSE [s EXCEPT !.test_screensaver =
                        NewWidget(kind, s.settings.show_stats, s.now),
                   !.session.test = NewSession]

test_slideshow(s, fail) ==
    IF ~s.settings.slideshow_folder
    THEN [s EXCEPT !.is_test_mode = FALSE]
    ELSE LaunchTest(s, "Slideshow", fail)

\* Variant: the test leaves the activity timer running
test_matrix_ActivityRuns(s, fail) ==
    LET s1 == [s EXCEPT !.is_test_mode = TRUE,
                        !.screensaver_timer = FALSE, !.progress_timer = FALSE]
    IN  CASE s.combo = "Slideshow" -> test_slideshow(s1, fail)
          [] s.combo = "Mystify"   -> LaunchTest(s1, "Mystify", fail)
          [] s.combo = "Matrix"    -> LaunchTest(s1, "Matrix", fail)
          [] OTHER                 -> s1

test_matrix(s, fail) ==
    LET s1 == [s EXCEPT !.is_test_mode = TRUE,
                        !.screensaver_timer = FALSE, !.progress_timer = FALSE,
                        !.activity_timer = FALSE]
    IN  CASE s.combo = "Slideshow" -> test_slideshow(s1, fail)
          [] s.combo = "Mystify"   -> LaunchTest(s1, "Mystify", fail)
          [] s.combo = "Matrix"    -> LaunchTest(s1, "Matrix", fail)
          [] OTHER                 -> s1

----------------------------------------------------------------------------
\* Settings handlers

\* The mode keys every settings.update() derives from the dropdown
ModesFromCombo(st, c) ==
    [st EXCEPT !.matrix_mode = (c = "Matrix"),
               !.slideshow_mode = (c = "Slideshow"),
               !.mystify_mode = (c = "Mystify")]

auto_save_settings(s) ==
    [s EXCEPT !.settings =
        [ModesFromCombo(s.settings, s.combo) EXCEPT !.enabled = (s.combo # "None")]]

on_screensaver_type_changed(s, text) ==
    auto_save_settings(
        [s EXCEPT !.combo = text, !.settings.enabled = (text # "None")])

closeEvent(s) ==
    LET s1 == [s EXCEPT !.settings = ModesFromCombo(s.settings, s.combo)]
        s2 == IF s1.settings.enabled THEN start_automatic_monitoring(s1) ELSE s1
    IN  [s2 EXCEPT !.visible = FALSE]

show_and_raise(s) == stop_all_timers_for_gui([s EXCEPT !.visible = TRUE])

quit_application(s) ==
    [s EXCEPT !.settings = ModesFromCombo(s.settings, s.combo),
              !.running = FALSE]

\* The dropdown selection create_widgets derives from the loaded settings
InitialCombo(st) ==
    IF ~st.enabled THEN "None"
    ELSE IF st.matrix_mode THEN "Matrix"
    ELSE IF st.slideshow_mode THEN "Slideshow"
    ELSE IF st.mystify_mode THEN "Mystify"
    ELSE "Matrix"

----------------------------------------------------------------------------
\* PerformanceGovernor: the emergency throttle of one effect engine

EmergencyCpuThreshold == 90
ThrottledInterval == 1000
DefaultFps == 15

\* MatrixWidget: int(1000 / target_fps), 1 ms when unlimited
MatrixInterval(target_fps) == IF target_fps > 0 THEN 1000 \div target_fps ELSE 1

\* MystifyWidget: 1000 // fps with unlimited capped at 60
MystifyInterval(fps) == 1000 \div (IF fps = 0 THEN 60 ELSE fps)

NormalInterval(kind, target_fps) ==
    IF kind = "Mystify" THEN MystifyInterval(target_fps) ELSE MatrixInterval(target_fps)

\* The engine after its widget's __init__ (and, for Matrix, the
\* update_settings call of MatrixScreensaver.__init__)
NewEngine(kind, target_fps) ==
    [kind |-> kind, target_fps |-> target_fps, is_emergency_throttled |-> FALSE,
     interval |-> NormalInterval(kind, target_fps)]

\* Variant: a sample equal to the threshold already throttles
check_emergency_cpu_throttle_AtThreshold(e, sample) ==
    IF ~sample.ok THEN e
    ELSE IF sample.cpu >= EmergencyCpuThreshold
    THEN IF ~e.is_emergency_throttled
         THEN [e EXCEPT !.is_emergency_throttled = TRUE, !.interval = ThrottledInterval]
         ELSE e
    ELSE IF e.is_emergency_throttled
         THEN [e EXCEPT !.is_emergency_throttled = FALSE,
                        !.interval = NormalInterval(e.kind, e.target_fps)]
         ELSE e

\* check_emergency_cpu_throttle of both widgets; sample.ok is FALSE when
\* psutil is missing, raises or returns no number
check_emergency_cpu_throttle(e, sample) ==
    IF ~sample.ok THEN e
    ELSE IF sample.cpu > EmergencyCpuThreshold
    THEN IF ~e.is_emergency_throttled
         THEN [e EXCEPT !.is_emergency_throttled = TRUE, !.interval = ThrottledInterval]
         ELSE e
    ELSE IF e.is_emergency_throttled
         THEN [e EXCEPT !.is_emergency_throttled = FALSE,
                        !.interval = NormalInterval(e.kind, e.target_fps)]
         ELSE e

\* MatrixWidget.update_settings: the timer is restarted at the target rate
update_settings(e, target_fps) ==
    [e EXCEPT !.target_fps = target_fps, !.interval = MatrixInterval(target_fps)]

NoHistory == [checks |-> 0, seen |-> FALSE, last |-> 0,
              runs |-> 0, recoveries |-> 0, ups |-> 0, downs |-> 0]

\* The history after a check of engine e with the sample gave engine e2
Recorded(h, e, sample, e2) ==
    LET above    == sample.cpu > EmergencyCpuThreshold
        wasAbove == h.seen /\ h.last > EmergencyCpuThreshold
    IN  IF ~sample.ok THEN [h EXCEPT !.checks = @ + 1]
        ELSE [checks |-> h.checks + 1, seen |-> TRUE, last |-> sample.cpu,
              runs |-> h.runs + (IF above /\ ~wasAbove THEN 1 ELSE 0),
              recoveries |-> h.recoveries + (IF ~above /\ wasAbove THEN 1 ELSE 0),
              ups |-> h.ups + (IF e2.is_emergency_throttled /\ ~e.is_emergency_throttled
                               THEN 1 ELSE 0),
              downs |-> h.downs + (IF ~e2.is_emergency_throttled /\ e.is_emergency_throttled
                                   THEN 1 ELSE 0)]

EngineIs(e) == engine = e /\ cpu_history = NoHistory

\* Parts of the program a specification does not exercise
NoMystify == [kind |-> "none"]
NoColumn == [kind |-> "none"]
NoCall == [fn |-> "none"]

NoColours == <<>>
NoController == [kind |-> "none"]
NoEnvironment == [kind |-> "none"]

SimIdle ==
    /\ mystify = NoMystify /\ column = NoColumn /\ calc = NoCall
    /\ colours = NoColours /\ v4 = NoController
    /\ environment = NoEnvironment

----------------------------------------------------------------------------
\* Input events on an effect window and the delivery of exit_requested

Widget(s, slot) == IF slot = "active" THEN s.active_screensaver ELSE s.test_screensaver

SetWidget(s, slot, w) ==
    IF slot = "active" THEN [s EXCEPT !.active_screensaver = w]
    ELSE [s EXCEPT !.test_screensaver = w]

\* The lifecycle slot connected to the widget's exit_requested signal
ExitHandler(s, slot) ==
    IF slot = "active" THEN on_screensaver_exit(s) ELSE on_test_finished(s)

\* MatrixScreensaver.close_screensaver (not standalone): first slot connected
close_screensaver(w) == [w EXCEPT !.usb_monitor_timer = FALSE, !.open = FALSE]

\* exit_requested.emit() with the slots run in connection order, followed by
\* what the emitting widget method does next (Mystify: self.close())
EmitExit(s, slot) ==
    LET w  == Widget(s, slot)
        s1 == IF w.kind = "Matrix" THEN SetWidget(s, slot, close_screensaver(w)) ELSE s
        s2 == ExitHandler(s1, slot)
    IN  IF w.kind = "Mystify" /\ Widget(s2, slot) # NoWidget
        THEN SetWidget(s2, slot, [Widget(s2, slot) EXCEPT !.open = FALSE])
        ELSE s2

Events == {"key", "key_control", "mouse_press", "mouse_move_small", "mouse_move_big"}

\* Whether the event makes the widget emit exit_requested
Exits(w, ev) ==
    CASE ev = "key"         -> TRUE
      [] ev = "key_control" -> w.kind = "Mystify"
      [] ev = "mouse_press" -> TRUE
      [] OTHER -> IF w.kind = "Mystify" THEN TRUE
                  ELSE w.mouse_seen /\ ev = "mouse_move_big"

\* keyPressEvent / mousePressEvent / mouseMoveEvent of the effect widgets
HandleEvent(s, slot, ev) ==
    LET w == Widget(s, slot)
    IN  IF Exits(w, ev) THEN EmitExit(s, slot)
        ELSE IF ev \in {"mouse_move_small", "mouse_move_big"} /\ ~w.mouse_seen
        THEN SetWidget(s, slot, [w EXCEPT !.mouse_seen = TRUE])
        ELSE s

\* check_usb_activity of the widget's class
WidgetPoll(w, readable, total, t) ==
    IF w.kind = "Mystify" THEN MystifyPoll(w, readable, total, t)
    ELSE MatrixPoll(w, readable, total, t)

\* The usb_monitor_timer slot of the effect widgets
check_usb_activity(s, slot, readable) ==
    LET w == Widget(s, slot)
        r == WidgetPoll(w, readable, s.irq_total, s.now)
        s1 == SetWidget(s, slot, r.w)
    IN  IF r.emit THEN EmitExit(s1, slot) ELSE s1

EffectOpen(s) == s.active_screensaver # NoWidget \/ s.test_screensaver # NoWidget

\* Number of input bursts that produced a counter total
InputCount(total) == (total \div (MystifyThreshold + 1)) + (total % (MystifyThreshold + 1))

----------------------------------------------------------------------------
\* Actions

Slots == {"active", "test"}

\* One second passes; the 1 s screensaver_timer fires if it is running.
\* fail: the effect's constructor raises when the tick activates
TickStep(fail) ==
    /\ running
    /\ LET s1 == [S EXCEPT !.now = now + 1]
       IN  IF screensaver_timer
           THEN /\ fail => (~is_test_mode /\ TimeoutReached(s1) /\ ~screensaver_active
                              /\ settings.enabled)
                /\ Becomes(check_screensaver_timeout(s1, fail))
           ELSE ~fail /\ Becomes(s1)

Tick == now < MaxTime /\ \E fail \in BOOLEAN : TickStep(fail)

\* The 2 s activity_timer fires
ActivityPollStep(xp, readable, mouse) ==
    /\ running /\ activity_timer
    /\ xp \in {"recent", "idle"} => readable /\ ~mouse
    /\ xp = "fail" => ~mouse
    /\ Becomes(check_user_activity(S, xp, readable, mouse))

ActivityPoll ==
    \E xp \in {"recent", "idle", "fail", "error"}, readable \in BOOLEAN, mouse \in BOOLEAN :
        ActivityPollStep(xp, readable, mouse)

\* The usb_monitor_timer of an effect widget fires
UsbPollStep(slot, readable) ==
    /\ running
    /\ Widget(S, slot) # NoWidget
    /\ Widget(S, slot).usb_monitor_timer
    /\ Becomes(check_usb_activity(S, slot, readable))

UsbPoll == \E slot \in Slots, readable \in BOOLEAN : UsbPollStep(slot, readable)

\* A key or mouse event reaches an open effect window
WidgetEventStep(slot, ev) ==
    /\ running
    /\ Widget(S, slot) # NoWidget
    /\ Widget(S, slot).open
    /\ Becomes(HandleEvent(S, slot, ev))

WidgetEvent == \E slot \in Slots, ev \in Events : WidgetEventStep(slot, ev)

\* Physical input raises the interrupt counters
InputStep(burst) ==
    /\ running
    /\ Becomes([S EXCEPT !.irq_total = irq_total + burst])

Bursts == {1, MystifyThreshold + 1}

Input ==
    \E burst \in Bursts :
        InputCount(irq_total + burst) <= MaxInputs /\ InputStep(burst)

\* Operator actions; the fullscreen effect window takes all input while open
TestMatrixStep(fail) ==
    /\ running /\ ~EffectOpen(S)
    /\ fail => (combo \in {"Matrix", "Mystify"}
                   \/ (combo = "Slideshow" /\ settings.slideshow_folder))
    /\ Becomes(test_matrix(S, fail))

TestMatrix == \E fail \in BOOLEAN : TestMatrixStep(fail)

CloseWindow ==
    /\ running /\ visible /\ ~EffectOpen(S)
    /\ Becomes(closeEvent(S))

ShowAndRaise ==
    /\ running /\ ~EffectOpen(S)
    /\ Becomes(show_and_raise(S))

TypeChangedStep(text) ==
    /\ running /\ visible /\ ~EffectOpen(S)
    /\ text # combo
    /\ Becomes(on_screensaver_type_changed(S, text))

TypeChanged == \E text \in ComboItems : TypeChangedStep(text)

Quit ==
    /\ running /\ ~EffectOpen(S)
    /\ Becomes(quit_application(S))

----------------------------------------------------------------------------

\* Settings files as the program writes them: the mode keys name one effect
InitialSettings ==
    { st \in [enabled : BOOLEAN, matrix_mode : BOOLEAN, mystify_mode : BOOLEAN,
              slideshow_mode : BOOLEAN, show_stats : BOOLEAN,
              slideshow_folder : BOOLEAN, lock_timeout : 1..MaxLockTimeout] :
        \E c \in Kinds : st = ModesFromCombo(st, c) }

\* The state after __init__ and main(): every timer stopped by
\* stop_all_timers_for_gui, then either the window is shown or, with
\* --autostart, monitoring is started
AfterInit(st, autostart) ==
    LET s0 == [settings |-> st, combo |-> InitialCombo(st),
               screensaver_timer |-> FALSE, progress_timer |-> FALSE,
               activity_timer |-> FALSE, last_activity_time |-> 0, now |-> 0,
               screensaver_active |-> FALSE, is_test_mode |-> FALSE,
               visible |-> ~autostart, running |-> TRUE,
               active_screensaver |-> NoWidget, test_screensaver |-> NoWidget,
               interrupt_baseline |-> NoBaseline, irq_total |-> 0,
               session |-> [active |-> NoSession, test |-> NoSession]]
    IN  IF autostart /\ st.enabled THEN start_automatic_monitoring(s0) ELSE s0

LifeIs(s) ==
    /\ settings = s.settings /\ combo = s.combo
    /\ screensaver_timer = s.screensaver_timer
    /\ progress_timer = s.progress_timer
    /\ activity_timer = s.activity_timer
    /\ last_activity_time = s.last_activity_time /\ now = s.now
    /\ screensaver_active = s.screensaver_active
    /\ is_test_mode = s.is_test_mode
    /\ visible = s.visible /\ running = s.running
    /\ active_screensaver = s.active_screensaver
    /\ test_screensaver = s.test_screensaver
    /\ interrupt_baseline = s.interrupt_baseline
    /\ irq_total = s.irq_total
    /\ session = s.session

Init ==
    \E st \in InitialSettings, autostart \in BOOLEAN :
        /\ LifeIs(AfterInit(st, autostart)) /\ EngineIs(NewEngine("Matrix", DefaultFps))
        /\ SimIdle

Next ==
    \/ Tick
    \/ ActivityPoll
    \/ UsbPoll
    \/ WidgetEvent
    \/ Input
    \/ TestMatrix
    \/ CloseWindow
    \/ ShowAndRaise
    \/ TypeChanged
    \/ Quit

Spec == Init /\ [][Next]_vars

----------------------------------------------------------------------------
\* Unattended sessions: the program is started (in the background or with
\* its window, from which a preview is launched) and then left to its timers,
\* the effect windows and the interrupt counters, over a horizon long enough
\* for the Mystify grace period to pass.

SessionSettings ==
    { st \in InitialSettings :
        st.enabled /\ ~st.show_stats /\ st.slideshow_folder /\ st.lock_timeout = 1 }

InitSession ==
    \E st \in SessionSettings, autostart \in BOOLEAN :
        /\ LifeIs(AfterInit(st, autostart)) /\ EngineIs(NewEngine("Matrix", DefaultFps))
        /\ SimIdle

SessionTick == now < MaxSessionTime /\ \E fail \in BOOLEAN : TickStep(fail)

SessionInput ==
    \E burst \in Bursts :
        InputCount(irq_total + burst) <= MaxSessionInputs /\ InputStep(burst)

SessionTest == now = 0 /\ visible /\ TestMatrixStep(FALSE)

NextSession ==
    \/ SessionTick
    \/ ActivityPoll
    \/ UsbPoll
    \/ WidgetEvent
    \/ SessionInput
    \/ SessionTest

SpecSession == InitSession /\ [][NextSession]_vars

----------------------------------------------------------------------------
\* Activation from any settings file: the mode keys may name several effects
\* or none (a file written by hand or by another version), so the dropdown,
\* which create_widgets sets with another priority, may show another effect
\* than the one the settings select.

LaunchSettings ==
    [enabled : BOOLEAN, matrix_mode : BOOLEAN, mystify_mode : BOOLEAN,
     slideshow_mode : BOOLEAN, show_stats : BOOLEAN,
     slideshow_folder : BOOLEAN, lock_timeout : {1}]

InitLaunch ==
    \E st \in LaunchSettings, autostart \in BOOLEAN :
        /\ LifeIs(AfterInit(st, autostart)) /\ EngineIs(NewEngine("Matrix", DefaultFps))
        /\ SimIdle

NextLaunch ==
    \/ Tick
    \/ WidgetEvent
    \/ CloseWindow
    \/ ShowAndRaise
    \/ TypeChanged

SpecLaunch == InitLaunch /\ [][NextLaunch]_vars

----------------------------------------------------------------------------
\* Window events at any time: a close request or a change of the dropdown
\* reaches the preferences window whenever it is shown, also while a preview
\* covers it.  A hidden window receives neither, and the tray menu is not
\* reachable below a fullscreen effect.

CloseSettings ==
    { st \in InitialSettings : st.slideshow_folder /\ st.lock_timeout = 1 }

InitClose ==
    \E st \in CloseSettings, autostart \in BOOLEAN :
        /\ LifeIs(AfterInit(st, autostart)) /\ EngineIs(NewEngine("Matrix", DefaultFps))
        /\ SimIdle

CloseEvent ==
    /\ running /\ visible
    /\ Becomes(closeEvent(S))

EnableToggle ==
    \E text \in ComboItems :
        /\ running /\ visible
        /\ text # combo
        /\ Becomes(on_screensaver_type_changed(S, text))

NextClose ==
    \/ Tick
    \/ ActivityPoll
    \/ UsbPoll
    \/ WidgetEvent
    \/ Input
    \/ TestMatrix
    \/ CloseEvent
    \/ EnableToggle
    \/ ShowAndRaise

SpecClose == InitClose /\ [][NextClose]_vars

----------------------------------------------------------------------------
\* One effect engine under a sequence of emergency checks and, for Matrix,
\* settings updates

FpsChoices == {0, 15, 30, 60}

CpuSamples == {50, 90, 91, 100}

Samples == [ok : {TRUE}, cpu : CpuSamples] \cup [ok : {FALSE}, cpu : {0}]

DefaultSettings ==
    [enabled |-> TRUE, matrix_mode |-> TRUE, mystify_mode |-> FALSE,
     slideshow_mode |-> FALSE, show_stats |-> FALSE, slideshow_folder |-> FALSE,
     lock_timeout |-> MaxLockTimeout]

InitThrottle ==
    /\ LifeIs(AfterInit(DefaultSettings, FALSE))
    /\ \E kind \in {"Matrix", "Mystify"}, fps \in FpsChoices :
         EngineIs(NewEngine(kind, fps))
    /\ SimIdle

\* update_animation finds the 2 s check interval elapsed
EmergencyCheckStep(sample) ==
    /\ cpu_history.checks < MaxChecks
    /\ engine' = check_emergency_cpu_throttle(engine, sample)
    /\ cpu_history' = Recorded(cpu_history, engine, sample, engine')
    /\ UNCHANGED <<lifeVars, simVars>>

EmergencyCheck == \E sample \in Samples : EmergencyCheckStep(sample)

UpdateSettingsStep(fps) ==
    /\ engine.kind = "Matrix"
    /\ engine' = update_settings(engine, fps)
    /\ UNCHANGED <<cpu_history, lifeVars, simVars>>

UpdateSettings == \E fps \in FpsChoices : UpdateSettingsStep(fps)

NextThrottle ==
    \/ EmergencyCheck
    \/ UpdateSettings

SpecThrottle == InitThrottle /\ [][NextThrottle]_vars

----------------------------------------------------------------------------
\* The v4 controller (ScreensaverPreferencesV4): its window, its timers and
\* the screensaver processes it starts with sidekick_screensaver.sh.
\* launches counts the Popen calls, processes the started processes that are
\* still alive, shown_since_launch tells whether the window has been shown
\* since the last launch.

MaxLaunches == 6

\* ScreensaverPreferencesV4.__init__: the timers are created, not started
NewController(enabled, script_exists) ==
    [kind |-> "v4", enabled |-> enabled, script_exists |-> script_exists,
     visible |-> FALSE, screensaver_timer |-> FALSE, progress_timer |-> FALSE,
     screensaver_active |-> FALSE, launches |-> 0, processes |-> 0,
     shown_since_launch |-> FALSE]

showEvent(c) ==
    [c EXCEPT !.visible = TRUE, !.screensaver_timer = FALSE,
              !.progress_timer = FALSE, !.shown_since_launch = TRUE]

\* hideEvent: the periodic screensaver_timer is started with lock_timeout
hideEvent(c) ==
    [c EXCEPT !.visible = FALSE,
              !.screensaver_timer = IF c.enabled THEN TRUE ELSE @,
              !.progress_timer = TRUE]

\* on_screensaver_timeout; fail: subprocess.Popen raises
on_screensaver_timeout(c, fail) ==
    IF ~c.enabled THEN c
    ELSE IF c.script_exists /\ ~fail
         THEN [c EXCEPT !.screensaver_active = TRUE,
                        !.launches = @ + 1, !.processes = @ + 1,
                        !.shown_since_launch = FALSE]
         ELSE c

on_type_changed(c, text) == [c EXCEPT !.enabled = (text # "None")]

\* main(): the window is shown, or with --start-minimized hidden before it
\* was ever shown; whether Qt then delivers a hide event depends on whether
\* the native window exists already
InitV4 ==
    /\ LifeIs(AfterInit(DefaultSettings, FALSE))
    /\ EngineIs(NewEngine("Matrix", DefaultFps))
    /\ mystify = NoMystify /\ column = NoColumn /\ calc = NoCall
    /\ colours = NoColours /\ environment = NoEnvironment
    /\ \E enabled \in BOOLEAN, script_exists \in BOOLEAN,
          start_minimized \in BOOLEAN, hide_delivered \in BOOLEAN :
         LET c == NewController(enabled, script_exists)
         IN  v4 = IF ~start_minimized THEN showEvent(c)
                  ELSE IF hide_delivered THEN hideEvent(c) ELSE c

V4Becomes(c) ==
    /\ v4' = c
    /\ UNCHANGED <<lifeVars, engineVars, mystify, column, calc, colours,
                   environment>>

\* The tray icon is clicked
V4Show == ~v4.visible /\ V4Becomes(showEvent(v4))

\* The window is closed to the tray
V4Close == v4.visible /\ V4Becomes(hideEvent(v4))

\* The periodic screensaver_timer fires
V4TimeoutStep(fail) ==
    /\ v4.screensaver_timer
    /\ V4Becomes(on_screensaver_timeout(v4, fail))

V4Timeout ==
    v4.launches < MaxLaunches /\ \E fail \in BOOLEAN : V4TimeoutStep(fail)

V4TypeChanged ==
    \E text \in ComboItems :
        v4.visible /\ V4Becomes(on_type_changed(v4, text))

\* A screensaver process exits
V4ProcessEnds ==
    v4.processes > 0 /\ V4Becomes([v4 EXCEPT !.processes = @ - 1])

NextV4 == V4Show \/ V4Close \/ V4Timeout \/ V4TypeChanged \/ V4ProcessEnds

SpecV4 == InitV4 /\ [][NextV4]_vars

----------------------------------------------------------------------------
\* The Mystify animation engine (MystifyWidget).  quality_level is counted in
\* hundredths (1.0 is 100, a step of 0.05 is 5); the rounding error of binary
\* floating point is not modelled.  A control point, a velocity and a stored
\* curve are tokens: the engine's lists are modelled by their entries' places.

MaxFrameCount == 2

Min(a, b) == IF a < b THEN a ELSE b
Max(a, b) == IF a > b THEN a ELSE b

\* init_shapes: one shape
NewShape(shape_complexity) ==
    LET num_control_points == Max(3, shape_complexity \div 2)
    IN  [control_points |-> [j \in 1..num_control_points |-> "point"],
         velocities |-> [j \in 1..num_control_points |-> "velocity"],
         control_velocities |-> [j \in 1..num_control_points |-> "velocity"]]

\* MystifyWidget.__init__ with the settings dictionary st
NewMystify(st) ==
    [kind |-> "Mystify",
     power_saving_mode |-> st.power_saving_mode,
     energy_efficient |-> st.energy_efficient,
     num_shapes |-> st.mystify_shapes,
     shape_complexity |-> st.mystify_complexity,
     trail_length |-> st.mystify_trail_length,
     shapes |-> [i \in 1..st.mystify_shapes |-> NewShape(st.mystify_complexity)],
     shape_trails |-> [i \in 1..st.mystify_shapes |-> <<>>],
     quality_level |-> 100,
     frame_count |-> 0,
     frame_skip_ratio |-> 1,
     has_last_activity_check |-> FALSE]

\* The frame-time step of adaptive_performance_adjustment on slow frames
FrameTimeStep(q) == Max(50, q - 5)

\* Variant: the CPU and memory steps have no floor
LoadStep_NoFloor(q) == q - 10

\* The CPU step and the memory step of adaptive_performance_adjustment
LoadStep(q) == Max(30, q - 10)

\* adaptive_performance_adjustment; load.psutil is FALSE when the import
\* fails, load.frames compares the average frame time with the 30 FPS target
adaptive_performance_adjustment(m, load) ==
    IF ~load.psutil THEN m
    ELSE
    LET m1 == CASE load.frames = "slow" ->
                     [m EXCEPT !.quality_level = FrameTimeStep(@)]
                [] load.frames = "fast" ->
                     [m EXCEPT !.quality_level = Min(100, @ + 5)]
                [] OTHER -> m
        m2 == IF load.cpu > 40
              THEN [m1 EXCEPT !.quality_level = LoadStep(@),
                              !.frame_skip_ratio =
                                  IF load.cpu > 70 THEN Min(4, @ + 1) ELSE @]
              ELSE m1
    IN  IF load.memory > 70
        THEN [m2 EXCEPT !.quality_level = LoadStep(@),
                        !.trail_length =
                            IF load.memory > 85 THEN Max(10, (@ * 8) \div 10) ELSE @]
        ELSE m2


\* _apply_performance_optimizations: the frame is skipped (TRUE) or the
\* quality caps are applied.  idle_long: more than 30 s have passed since
\* _last_activity_check was set
SkipsFrame(m) == m.power_saving_mode /\ m.frame_count % 2 # 0

apply_performance_optimizations(m, idle_long) ==
    LET m1 == IF m.power_saving_mode
              THEN [m EXCEPT !.quality_level = Min(60, @)]
              ELSE m
    IN  IF m1.energy_efficient /\ m1.frame_count % 5 = 0
        THEN IF m1.has_last_activity_check
             THEN IF idle_long THEN [m1 EXCEPT !.quality_level = Min(70, @)] ELSE m1
             ELSE [m1 EXCEPT !.has_last_activity_check = TRUE]
        ELSE m1

\* The trail limit computed in _update_shape_animations
MaxTrail(trail_length, quality_level) ==
    LET min_trail == Max(5, trail_length \div 4)
    IN  Max(min_trail, (trail_length * quality_level) \div 100)

\* The trail part of _update_shape_animations for one shape: the current
\* curve is appended and at most one stored curve is dropped
UpdatedTrail(m, trail) ==
    IF m.quality_level > 70 \/ m.frame_count % 2 = 0
    THEN LET appended == Append(trail, "curve")
         IN  IF Len(appended) > MaxTrail(m.trail_length, m.quality_level)
             THEN Tail(appended)
             ELSE appended
    ELSE trail

\* Variant: a control point is added to a moving shape
UpdatedShape_Grows(shape) ==
    [shape EXCEPT !.control_points = Append(@, "point")]

\* The control-point loop of _update_shape_animations: every point and
\* velocity is replaced in its place
UpdatedShape(shape) ==
    [shape EXCEPT
        !.control_points = [j \in 1..Len(shape.control_points) |-> "point"],
        !.velocities = [j \in 1..Len(shape.control_points) |-> shape.velocities[j]]]

update_shape_animations(m) ==
    [m EXCEPT !.shape_trails =
                  [i \in 1..Len(m.shapes) |-> UpdatedTrail(m, m.shape_trails[i])],
              !.shapes = [i \in 1..Len(m.shapes) |-> UpdatedShape(m.shapes[i])]]

\* _update_performance_tracking; second_elapsed: a second has passed since
\* the frame counter was last reset
update_performance_tracking(m, second_elapsed) ==
    [m EXCEPT !.frame_count = IF second_elapsed THEN 0 ELSE @ + 1]

\* update_animation without its emergency check: load.due says that the
\* 5 s performance check interval has elapsed
update_animation(m, load, idle_long, second_elapsed) ==
    LET m1 == IF load.due THEN adaptive_performance_adjustment(m, load) ELSE m
    IN  IF SkipsFrame(m1) THEN m1
        ELSE update_performance_tracking(
                 update_shape_animations(
                     apply_performance_optimizations(m1, idle_long)),
                 second_elapsed)


\* One Mystify widget under a sequence of animation ticks

MystifySettings ==
    { st \in [power_saving_mode : BOOLEAN, energy_efficient : BOOLEAN,
              mystify_shapes : {1, 3}, mystify_complexity : {6, 8},
              mystify_trail_length : {12}] :
        st.mystify_shapes = 3 <=> st.mystify_complexity = 6 }

\* What a tick finds: whether the 2 s emergency check is due and its sample
EmergencyChecks ==
    [due : {FALSE}, ok : {FALSE}, cpu : {0}]
        \cup [due : {TRUE}, ok : {TRUE}, cpu : {50, 91}]

\* ... and whether the 5 s performance check is due, with the system's load
Loads ==
    [due : BOOLEAN, psutil : {FALSE}, frames : {"ok"}, cpu : {0}, memory : {0}]
        \cup [due : {TRUE}, psutil : {TRUE}, frames : {"slow", "ok", "fast"},
              cpu : {30, 50, 80}, memory : {50, 90}]

InitMystify ==
    /\ LifeIs(AfterInit(DefaultSettings, FALSE))
    /\ EngineIs(NewEngine("Mystify", DefaultFps))
    /\ \E st \in MystifySettings : mystify = NewMystify(st)
    /\ column = NoColumn /\ calc = NoCall /\ colours = NoColours /\ v4 = NoController
    /\ environment = NoEnvironment

\* MystifyWidget.update_animation, one timer tick
MystifyTickStep(check, load, idle_long, second_elapsed) ==
    /\ second_elapsed \/ mystify.frame_count < MaxFrameCount
    /\ engine' = IF check.due
                 THEN check_emergency_cpu_throttle(engine,
                          [ok |-> check.ok, cpu |-> check.cpu])
                 ELSE engine
    /\ mystify' = update_animation(mystify, load, idle_long, second_elapsed)
    /\ UNCHANGED <<cpu_history, lifeVars, column, calc, colours, v4, environment>>

\* The ticks at which the time since _last_activity_check is looked at
ChecksIdle(m) ==
    /\ ~SkipsFrame(m) /\ m.energy_efficient /\ m.frame_count % 5 = 0
    /\ m.has_last_activity_check

MystifyTick ==
    \E check \in EmergencyChecks, load \in Loads, second_elapsed \in BOOLEAN,
       idle_long \in IF ChecksIdle(mystify) THEN BOOLEAN ELSE {FALSE} :
        MystifyTickStep(check, load, idle_long, second_elapsed)

NextMystify == MystifyTick

SpecMystify == InitMystify /\ [][NextMystify]_vars

\* The widget in power-saving mode, whose animation timer keeps firing

InitPowerSaving ==
    /\ InitMystify
    /\ mystify.power_saving_mode

SpecPowerSaving ==
    InitPowerSaving /\ [][NextMystify]_vars /\ WF_vars(MystifyTick)

\* The widget with default settings (power_saving_mode off, energy_efficient
\* on) under a load that is arbitrary at first and light from some moment on

LightLoads ==
    { load \in Loads :
        load.due => /\ load.psutil /\ load.frames = "fast"
                    /\ load.cpu <= 40 /\ load.memory <= 70 }

\* Before that: light, or slow frames on a busy machine
HeavyLoads ==
    LightLoads \cup
    { load \in Loads :
        /\ load.due /\ load.psutil /\ load.frames = "slow"
        /\ load.cpu = 80 /\ load.memory = 90 }

\* The emergency samples of a machine that is not overloaded
CalmChecks == { check \in EmergencyChecks : check.cpu <= 50 }

NewEnvironment == [kind |-> "Mystify", light |-> FALSE, idle_long |-> FALSE]

InitLightLoad ==
    /\ LifeIs(AfterInit(DefaultSettings, FALSE))
    /\ EngineIs(NewEngine("Mystify", DefaultFps))
    /\ \E st \in MystifySettings :
        /\ ~st.power_saving_mode /\ st.energy_efficient
        /\ st.mystify_shapes = 3
        /\ mystify = NewMystify(st)
    /\ environment = NewEnvironment
    /\ column = NoColumn /\ calc = NoCall /\ colours = NoColours
    /\ v4 = NoController

\* update_animation at a tick at which the 5 s performance check is due or not
LoadTick(due) ==
    \E check \in CalmChecks, second_elapsed \in BOOLEAN,
       load \in IF environment.light THEN LightLoads ELSE HeavyLoads :
        /\ load.due = due
        /\ MystifyTickStep(check, load, environment.idle_long, second_elapsed)

\* The load becomes light and stays light
BecomesLight ==
    /\ ~environment.light
    /\ environment' = [environment EXCEPT !.light = TRUE]
    /\ UNCHANGED <<lifeVars, engineVars, mystify, column, calc, colours, v4>>

\* 30 s have passed since the first frame set _last_activity_check
ThirtySeconds ==
    /\ mystify.has_last_activity_check /\ ~environment.idle_long
    /\ environment' = [environment EXCEPT !.idle_long = TRUE]
    /\ UNCHANGED <<lifeVars, engineVars, mystify, column, calc, colours, v4>>

NextLightLoad ==
    LoadTick(TRUE) \/ LoadTick(FALSE) \/ BecomesLight \/ ThirtySeconds

SpecLightLoad ==
    /\ InitLightLoad /\ [][NextLightLoad]_vars
    /\ WF_vars(LoadTick(TRUE)) /\ WF_vars(LoadTick(FALSE)) /\ WF_vars(ThirtySeconds)

----------------------------------------------------------------------------
\* The colour and the tension of the Mystify shapes.  color_hue and
\* color_shift are counted in degrees, curve_tension in hundredths; of the
\* random step of the tension only the values -0.01, 0 and 0.01 are drawn.

MaxColourFrames == 22

\* init_shapes: random.randint(0, 360) returns an integer N with 0 <= N <= 360
Hues == {0, 359, 360}
\* random.uniform(0.5, 2.0)
ColorShifts == {2}
\* random.uniform(0.3, 0.8)
Tensions == {30, 80}
\* random.uniform(-0.01, 0.01)
Walks == {-1, 0, 1}

NewColour(hue, shift, tension) ==
    [color_hue |-> hue, color_shift |-> shift, curve_tension |-> tension]

\* The end of the shape loop of _update_shape_animations: the tension takes a
\* clamped random step, the hue advances on the frames the quality allows
UpdatedColour(m, colour, walk) ==
    [colour EXCEPT
        !.curve_tension = Max(20, Min(100, @ + walk)),
        !.color_hue = IF m.quality_level > 70 \/ m.frame_count % 3 = 0
                      THEN (@ + colour.color_shift) % 360
                      ELSE @]

\* The widget as _update_shape_animations finds it in update_animation
FrameState(m, load, idle_long) ==
    apply_performance_optimizations(
        IF load.due THEN adaptive_performance_adjustment(m, load) ELSE m,
        idle_long)

\* update_animation, as far as the shapes' colours go
update_shape_colours(m, cs, load, idle_long, walk) ==
    IF SkipsFrame(IF load.due THEN adaptive_performance_adjustment(m, load) ELSE m)
    THEN cs
    ELSE [i \in 1..Len(cs) |->
             UpdatedColour(FrameState(m, load, idle_long), cs[i], walk)]

\* One second of one widget whose psutil import fails
ColourSettings == { st \in MystifySettings : st.mystify_shapes = 1 }

ColourLoads == { load \in Loads : ~load.psutil }

InitColour ==
    /\ LifeIs(AfterInit(DefaultSettings, FALSE))
    /\ EngineIs(NewEngine("Mystify", DefaultFps))
    /\ \E st \in ColourSettings : mystify = NewMystify(st)
    /\ \E hue \in Hues, shift \in ColorShifts, tension \in Tensions :
        colours = [i \in 1..Len(mystify.shapes) |-> NewColour(hue, shift, tension)]
    /\ column = NoColumn /\ calc = NoCall /\ v4 = NoController
    /\ environment = NoEnvironment

\* MystifyWidget.update_animation, one timer tick within the second
ColourTickStep(check, load, idle_long, walk) ==
    /\ mystify.frame_count < MaxColourFrames
    /\ engine' = IF check.due
                 THEN check_emergency_cpu_throttle(engine,
                          [ok |-> check.ok, cpu |-> check.cpu])
                 ELSE engine
    /\ mystify' = update_animation(mystify, load, idle_long, FALSE)
    /\ colours' = update_shape_colours(mystify, colours, load, idle_long, walk)
    /\ UNCHANGED <<cpu_history, lifeVars, column, calc, v4, environment>>

ColourTick ==
    \E check \in EmergencyChecks, load \in ColourLoads, walk \in Walks,
       idle_long \in IF ChecksIdle(mystify) THEN BOOLEAN ELSE {FALSE} :
        ColourTickStep(check, load, idle_long, walk)

NextColour == ColourTick

SpecColour == InitColour /\ [][NextColour]_vars

----------------------------------------------------------------------------
\* One column of the Matrix rain (MatrixColumn).  Positions are whole pixels;
\* the random draws of the code are the inputs of the operators.

ScreenHeight == 120
CharHeight == 20

Glyphs == {"0", "A"}
Heads == {-100, -60, -20}
Lengths == 3..15
Movements == {60, 100}

\* Variant: one character more than `length` is generated
reset_column_ExtraCharacter(col, head, length, glyph) ==
    [col EXCEPT !.head_position = head,
                !.length = length,
                !.characters = [i \in 1..(length + 1) |-> glyph],
                !.char_positions = [i \in 1..length |-> head - (i - 1) * col.char_height],
                !.char_ages = [i \in 1..length |-> i - 1]]

\* MatrixColumn.reset_column with the draws head (randint(-100, -20)),
\* length (randint(3, 15)) and glyph (random.choice)
reset_column(col, head, length, glyph) ==
    [col EXCEPT !.head_position = head,
                !.length = length,
                !.characters = [i \in 1..length |-> glyph],
                !.char_positions = [i \in 1..length |-> head - (i - 1) * col.char_height],
                !.char_ages = [i \in 1..length |-> i - 1]]

\* MatrixColumn.__init__
NewColumn(screen_height, char_height, head, length, glyph) ==
    reset_column([kind |-> "Matrix", screen_height |-> screen_height,
                  char_height |-> char_height, head_position |-> -50,
                  length |-> length, characters |-> <<>>, char_positions |-> <<>>,
                  char_ages |-> <<>>, op |-> "init", drawn |-> <<>>],
                 head, length, glyph)

\* A character change of MatrixColumn.update: none, or glyph at place i
NoChange == [i |-> 0, glyph |-> "0"]
Changes(col) == {NoChange} \cup [i : {1, Len(col.characters)}, glyph : Glyphs]

\* MatrixColumn.update past its throttle: the column moves down by
\* movement = speed * delta_time * 60, every character ages
column_update(col, movement, change) ==
    [col EXCEPT !.head_position = @ + movement,
                !.char_positions = [i \in 1..Len(col.char_positions) |->
                                        col.char_positions[i] + movement],
                !.char_ages = [i \in 1..Len(col.char_positions) |->
                                        col.char_ages[i] + 1],
                !.characters = [i \in 1..Len(col.characters) |->
                                   IF i = change.i THEN change.glyph
                                   ELSE col.characters[i]]]

\* The value MatrixColumn.update returns when it is not throttled
OffScreen(col) == col.head_position > col.screen_height + 100

\* The loop body of MatrixWidget.update_animation for one column
update_column(col, throttled, movement, change, head, length, glyph) ==
    IF throttled THEN [col EXCEPT !.op = "throttled", !.drawn = <<>>]
    ELSE LET moved == column_update(col, movement, change)
         IN  IF OffScreen(moved)
             THEN [reset_column(moved, head, length, glyph)
                      EXCEPT !.op = "reset", !.drawn = <<>>]
             ELSE [moved EXCEPT !.op = "update", !.drawn = <<>>]

\* MatrixWidget.draw_column: the drawText calls made for one column, in order,
\* each with the loop index i (from 0) and the position drawn at
MaxCharsToDraw == 10
DrawMargin == 50

RECURSIVE DrawFrom(_, _, _)
DrawFrom(col, i, screen_height) ==
    IF i >= Min(Len(col.characters), Min(Len(col.char_positions), Len(col.char_ages)))
    THEN <<>>
    ELSE LET pos == col.char_positions[i + 1]
         IN  IF pos < -DrawMargin \/ pos > screen_height + DrawMargin
             THEN DrawFrom(col, i + 1, screen_height)
             ELSE IF i > MaxCharsToDraw THEN <<>>
             ELSE <<[i |-> i, pos |-> pos, char |-> col.characters[i + 1]]>>
                      \o DrawFrom(col, i + 1, screen_height)

draw_column(col, screen_height) == DrawFrom(col, 0, screen_height)

\* MatrixWidget.paintEvent for one column
paint_column(col) ==
    [col EXCEPT !.op = "paint", !.drawn = draw_column(col, col.screen_height)]

\* setup_columns: a new column, its start staggered by randint(0, height)
InitColumn ==
    /\ LifeIs(AfterInit(DefaultSettings, FALSE))
    /\ EngineIs(NewEngine("Matrix", DefaultFps))
    /\ mystify = NoMystify /\ calc = NoCall /\ colours = NoColours /\ v4 = NoController
    /\ environment = NoEnvironment
    /\ \E head \in Heads, length \in Lengths, glyph \in Glyphs,
          stagger \in {0, ScreenHeight} :
         column = [NewColumn(ScreenHeight, CharHeight, head, length, glyph)
                      EXCEPT !.head_position = @ - stagger]

ColumnStep(throttled, movement, change, head, length, glyph) ==
    /\ column' = update_column(column, throttled, movement, change, head, length, glyph)
    /\ UNCHANGED <<lifeVars, engineVars, mystify, calc, colours, v4, environment>>

\* The draws of reset_column are made only when the column is reset
Resets(col, throttled, movement) ==
    ~throttled /\ OffScreen([col EXCEPT !.head_position = @ + movement])

ColumnTick ==
    \E throttled \in BOOLEAN, movement \in Movements :
        IF Resets(column, throttled, movement)
        THEN \E head \in Heads, length \in Lengths, glyph \in Glyphs :
                ColumnStep(throttled, movement, NoChange, head, length, glyph)
        ELSE \E change \in IF throttled THEN {NoChange} ELSE Changes(column) :
                ColumnStep(throttled, movement, change, -20, 3, "0")

\* A repaint between two animation ticks
Paint ==
    /\ column.op # "paint"
    /\ column' = paint_column(column)
    /\ UNCHANGED <<lifeVars, engineVars, mystify, calc, colours, v4, environment>>

NextColumn == ColumnTick \/ Paint

SpecColumn == InitColumn /\ [][NextColumn]_vars

----------------------------------------------------------------------------
\* The drift of the statistics overlay (calculate_drift_position of both
\* widgets).  Times are whole seconds; a quotient n / d of the code is kept as
\* the pair (n, d) until int() truncates it.

DriftCycleDuration == 480
DriftMargin == 50

\* int(n / d) for d > 0: truncation toward zero
Trunc(n, d) == IF n >= 0 THEN n \div d ELSE -((-n) \div d)

\* Variant: the elapsed time is not reduced modulo the cycle
calculate_drift_position_NoWrap(stats_drift, elapsed, screen_width, screen_height) ==
    LET D == DriftCycleDuration
        span_x == screen_width - 2 * DriftMargin - 300
        span_y == screen_height - 2 * DriftMargin - 80
    IN  IF ~stats_drift THEN [x |-> 10, y |-> 30]
        ELSE IF 4 * elapsed < D
        THEN [x |-> Trunc(DriftMargin * D + 4 * elapsed * span_x, D), y |-> DriftMargin]
        ELSE IF 4 * elapsed < 2 * D
        THEN [x |-> screen_width - DriftMargin - 300,
              y |-> Trunc(DriftMargin * D + (4 * elapsed - D) * span_y, D)]
        ELSE IF 4 * elapsed < 3 * D
        THEN [x |-> Trunc((screen_width - DriftMargin - 300) * D
                              - (4 * elapsed - 2 * D) * span_x, D),
              y |-> screen_height - DriftMargin - 80]
        ELSE [x |-> DriftMargin,
              y |-> Trunc((screen_height - DriftMargin - 80) * D
                              - (4 * elapsed - 3 * D) * span_y, D)]

\* calculate_drift_position, elapsed seconds after stats_drift_start_time:
\* cycle_progress is r / D and edge_progress is (4r - kD) / D on edge k
calculate_drift_position(stats_drift, elapsed, screen_width, screen_height) ==
    LET D == DriftCycleDuration
        r == elapsed % D
        span_x == screen_width - 2 * DriftMargin - 300
        span_y == screen_height - 2 * DriftMargin - 80
    IN  IF ~stats_drift THEN [x |-> 10, y |-> 30]
        ELSE IF 4 * r < D
        THEN [x |-> Trunc(DriftMargin * D + 4 * r * span_x, D), y |-> DriftMargin]
        ELSE IF 4 * r < 2 * D
        THEN [x |-> screen_width - DriftMargin - 300,
              y |-> Trunc(DriftMargin * D + (4 * r - D) * span_y, D)]
        ELSE IF 4 * r < 3 * D
        THEN [x |-> Trunc((screen_width - DriftMargin - 300) * D
                              - (4 * r - 2 * D) * span_x, D),
              y |-> screen_height - DriftMargin - 80]
        ELSE [x |-> DriftMargin,
              y |-> Trunc((screen_height - DriftMargin - 80) * D
                              - (4 * r - 3 * D) * span_y, D)]

----------------------------------------------------------------------------
\* Version comparison (is_newer_version).  A string is a sequence of
\* characters.

DigitChars == <<"0", "1", "2", "3", "4", "5", "6", "7", "8", "9">>
Digits == {DigitChars[i] : i \in 1..10}
VersionChars == {"0", "1", "2", ".", "a"}
MaxVersionLen == 3

VersionStrings == UNION {[1..n -> VersionChars] : n \in 0..MaxVersionLen}

\* str.split('.')
RECURSIVE SplitDots(_)
SplitDots(s) ==
    IF \E i \in 1..Len(s) : s[i] = "."
    THEN LET i == CHOOSE k \in 1..Len(s) :
                      s[k] = "." /\ \A j \in 1..(k - 1) : s[j] # "."
         IN  <<SubSeq(s, 1, i - 1)>> \o SplitDots(SubSeq(s, i + 1, Len(s)))
    ELSE <<s>>

\* int(x) succeeds on a non-empty string of digits
IsInteger(x) == x # <<>> /\ \A i \in 1..Len(x) : x[i] \in Digits

DigitValue(c) == (CHOOSE i \in 1..10 : DigitChars[i] = c) - 1

\* int(x)
RECURSIVE ToInteger(_)
ToInteger(x) ==
    IF x = <<>> THEN 0
    ELSE 10 * ToInteger(SubSeq(x, 1, Len(x) - 1)) + DigitValue(x[Len(x)])

\* parts.extend([0] * (max_len - len(parts)))
Extended(parts, max_len) ==
    [i \in 1..max_len |-> IF i <= Len(parts) THEN parts[i] ELSE 0]

\* Python's list comparison a > b
RECURSIVE ListGreater(_, _)
ListGreater(a, b) ==
    IF a = <<>> \/ b = <<>> THEN a # <<>> /\ b = <<>>
    ELSE IF Head(a) # Head(b) THEN Head(a) > Head(b)
    ELSE ListGreater(Tail(a), Tail(b))

\* Variant: equal versions count as newer
is_newer_version_OrEqual(latest, current) ==
    LET l == SplitDots(latest)
        c == SplitDots(current)
    IN  IF \A i \in 1..Len(l) : IsInteger(l[i])
        THEN IF \A i \in 1..Len(c) : IsInteger(c[i])
             THEN LET latest_parts == [i \in 1..Len(l) |-> ToInteger(l[i])]
                      current_parts == [i \in 1..Len(c) |-> ToInteger(c[i])]
                      max_len == Max(Len(l), Len(c))
                  IN  ~ListGreater(Extended(current_parts, max_len),
                                   Extended(latest_parts, max_len))
             ELSE FALSE
        ELSE FALSE

is_newer_version(latest, current) ==
    LET l == SplitDots(latest)
        c == SplitDots(current)
    IN  IF \A i \in 1..Len(l) : IsInteger(l[i])
        THEN IF \A i \in 1..Len(c) : IsInteger(c[i])
             THEN LET latest_parts == [i \in 1..Len(l) |-> ToInteger(l[i])]
                      current_parts == [i \in 1..Len(c) |-> ToInteger(c[i])]
                      max_len == Max(Len(l), Len(c))
                  IN  ListGreater(Extended(latest_parts, max_len),
                                  Extended(current_parts, max_len))
             ELSE FALSE
        ELSE FALSE

----------------------------------------------------------------------------
\* The update check schedule (should_check_for_updates).  A time stamp is
\* month, day and hour of one common year; its text is the ISO string with
\* these fields, which fromisoformat accepts when they name a real date.

DaysInMonth(m) == CASE m = 2 -> 28
                    [] m \in {4, 6, 9, 11} -> 30
                    [] OTHER -> 31

\* datetime.fromisoformat raises ValueError unless the fields are in range
ValidDate(d) ==
    /\ d.month \in 1..12
    /\ d.day \in 1..DaysInMonth(d.month)
    /\ d.hour \in 0..23

RECURSIVE DaysBefore(_)
DaysBefore(m) == IF m <= 1 THEN 0 ELSE DaysBefore(m - 1) + DaysInMonth(m - 1)

\* Hours since the start of the year
Hours(d) == (DaysBefore(d.month) + d.day - 1) * 24 + d.hour

\* (a - b).days: timedelta normalises to whole days rounded down
DaysBetween(a, b) == (Hours(a) - Hours(b)) \div 24

\* Values of settings['last_update_check']: empty, text that is no date, or
\* the ISO text of the fields
NoText == [text |-> "empty"]
BadText == [text |-> "invalid"]
IsoText(d) == [text |-> "iso", month |-> d.month, day |-> d.day, hour |-> d.hour]

\* Variant: a check is due only after more than `frequency` days
should_check_for_updates_Strict(last_check, frequency, today) ==
    IF last_check = NoText THEN TRUE
    ELSE IF last_check.text # "iso" THEN TRUE
    ELSE IF ~ValidDate(last_check) THEN TRUE
    ELSE DaysBetween(today, last_check) > frequency

should_check_for_updates(last_check, frequency, today) ==
    IF last_check = NoText THEN TRUE
    ELSE IF last_check.text # "iso" THEN TRUE
    ELSE IF ~ValidDate(last_check) THEN TRUE
    ELSE DaysBetween(today, last_check) >= frequency

----------------------------------------------------------------------------
\* The settings file (save_settings / load_settings of the preferences
\* window).  A value is a record tagged with its Python type: [b |-> ...] a
\* bool, [i |-> n] an int, [f |-> n] the float n / 100, [s |-> ...] a str.
\* A JSON text is a sequence of characters and, for a string literal, the
\* string between two quote characters.

\* str(n) for n >= 0
RECURSIVE Numeral(_)
Numeral(n) ==
    IF n < 10 THEN <<DigitChars[n + 1]>>
    ELSE Numeral(n \div 10) \o <<DigitChars[(n % 10) + 1]>>

\* repr(x) of the float x = n / 100, n >= 0
FloatRepr(n) ==
    LET whole == Numeral(n \div 100)
        tenths == DigitChars[((n % 100) \div 10) + 1]
        hundredths == DigitChars[(n % 10) + 1]
    IN  IF n % 10 = 0 THEN whole \o <<".", tenths>>
        ELSE whole \o <<".", tenths, hundredths>>

\* json.dumps of one value
Encoded(v) ==
    CASE "b" \in DOMAIN v -> IF v.b THEN <<"true">> ELSE <<"false">>
      [] "i" \in DOMAIN v -> Numeral(v.i)
      [] "f" \in DOMAIN v -> FloatRepr(v.f)
      [] OTHER -> <<"\"", v.s, "\"">>

\* json.loads of one value's text
Decoded(text) ==
    IF text = <<"true">> THEN [b |-> TRUE]
    ELSE IF text = <<"false">> THEN [b |-> FALSE]
    ELSE IF text[1] = "\"" THEN [s |-> text[2]]
    ELSE IF \E k \in 1..Len(text) : text[k] = "."
    THEN LET k == CHOOSE j \in 1..Len(text) : text[j] = "."
             fraction == SubSeq(text, k + 1, Len(text))
         IN  [f |-> 100 * ToInteger(SubSeq(text, 1, k - 1))
                    + (IF Len(fraction) = 1 THEN 10 * ToInteger(fraction)
                       ELSE ToInteger(fraction))]
    ELSE [i |-> ToInteger(text)]

\* The file when it does not exist
NoFile == [exists |-> FALSE]

\* save_settings: json.dump(self.settings, f), or nothing written on error
save_settings(st, writable) ==
    IF writable
    THEN [exists |-> TRUE, text |-> [k \in DOMAIN st |-> Encoded(st[k])]]
    ELSE NoFile

\* Variant: the file is read but the settings are not updated from it
load_settings_KeepsDefaults(defaults, file) == defaults

\* load_settings: self.settings.update(json.load(f)) when the file exists
load_settings(defaults, file) ==
    IF file.exists
    THEN [k \in DOMAIN defaults \cup DOMAIN file.text |->
              IF k \in DOMAIN file.text THEN Decoded(file.text[k]) ELSE defaults[k]]
    ELSE defaults

\* Some of the default settings of the preferences window
V4Defaults ==
    [enabled |-> [b |-> TRUE], lock_timeout |-> [i |-> 300],
     slide_duration |-> [f |-> 500], last_update_check |-> [s |-> ""]]

\* Settings the window can hold: the default keys with values of their types
SettingsDicts ==
    [enabled : [b : BOOLEAN],
     lock_timeout : [i : {0, 60, 300, 1200}],
     slide_duration : [f : {25, 150, 500, 1000}],
     last_update_check : [s : {"", "invalid", "2025-01-31T12:00:00"}]]

----------------------------------------------------------------------------
\* Calls of the functions above: the initial state holds a call with its
\* arguments, a step makes the call and records what it returns.

DriftStep == 30
MaxDriftSteps == 40

DriftTimes == {k * DriftStep : k \in 0..MaxDriftSteps}
ScreenWidths == {350, 800, 1920}
ScreenHeights == {200, 600, 1080}

Frequencies == {0, 1, 7, 30}
Todays == {d \in [month : {1, 2, 3}, day : {1, 2, 28, 31}, hour : {0, 12}] : ValidDate(d)}
LastChecks ==
    {NoText, BadText}
        \cup {IsoText(d) : d \in [month : {1, 2, 3, 13}, day : {1, 28, 30, 31},
                                  hour : {0, 12}]}

Call(fn, args) == [fn |-> fn, done |-> FALSE, args |-> args]
Returned(call, result) ==
    [fn |-> call.fn, done |-> TRUE, args |-> call.args, result |-> result]

Calls ==
    {Call("calculate_drift_position", a) :
        a \in [stats_drift : BOOLEAN, elapsed : DriftTimes,
               screen_width : ScreenWidths, screen_height : ScreenHeights]}
    \cup {Call("is_newer_version", a) :
        a \in [latest : VersionStrings, current : VersionStrings]}
    \cup {Call("should_check_for_updates", a) :
        a \in [last_check : LastChecks, frequency : Frequencies, today : Todays]}
    \cup {Call("save_settings", a) :
        a \in [settings : SettingsDicts, writable : BOOLEAN]}

InitCalc ==
    /\ LifeIs(AfterInit(DefaultSettings, FALSE))
    /\ EngineIs(NewEngine("Matrix", DefaultFps))
    /\ mystify = NoMystify /\ column = NoColumn /\ colours = NoColours /\ v4 = NoController
    /\ environment = NoEnvironment
    /\ calc \in Calls

Pending(fn) == calc.fn = fn /\ ~calc.done

Returns(result) ==
    /\ calc' = Returned(calc, result)
    /\ UNCHANGED <<lifeVars, engineVars, mystify, column, colours, v4, environment>>

\* paintEvent asks for the position of the statistics overlay
DriftPosition ==
    /\ Pending("calculate_drift_position")
    /\ Returns(calculate_drift_position(calc.args.stats_drift, calc.args.elapsed,
                                        calc.args.screen_width, calc.args.screen_height))

\* check_for_updates compares the latest release with the running version
VersionCheck ==
    /\ Pending("is_newer_version")
    /\ Returns(is_newer_version(calc.args.latest, calc.args.current))

\* check_for_updates asks whether an automatic check is due
UpdateCheckDue ==
    /\ Pending("should_check_for_updates")
    /\ Returns(should_check_for_updates(calc.args.last_check, calc.args.frequency,
                                        calc.args.today))

\* The window saves its settings; the file is what the next start finds
SaveSettings ==
    /\ Pending("save_settings")
    /\ calc' = Call("load_settings",
                    [saved |-> calc.args.settings,
                     file |-> save_settings(calc.args.settings, calc.args.writable)])
    /\ UNCHANGED <<lifeVars, engineVars, mystify, column, colours, v4, environment>>

\* The next start: __init__ sets the defaults and calls load_settings
LoadSettings ==
    /\ Pending("load_settings")
    /\ Returns(load_settings(V4Defaults, calc.args.file))

NextCalc ==
    \/ DriftPosition
    \/ VersionCheck
    \/ UpdateCheckDue
    \/ SaveSettings
    \/ LoadSettings

SpecCalc == InitCalc /\ [][NextCalc]_vars

----------------------------------------------------------------------------
\* Lifecycle states of the specification, read off the program's fields

Monitoring == screensaver_timer /\ ~is_test_mode /\ ~screensaver_active

Active == screensaver_active /\ active_screensaver # NoWidget

AllTimersStopped == ~screensaver_timer /\ ~progress_timer /\ ~activity_timer

\* C1: in Monitoring, a tick of check_screensaver_timeout leaves the
\* screensaver inactive while elapsed < lock_timeout, and activates it on the
\* tick at which elapsed >= lock_timeout.
C1_TimeoutActivation ==
    [][\A fail \in BOOLEAN :
         (Monitoring /\ TickStep(fail)) =>
            IF now' - last_activity_time >= settings.lock_timeout
            THEN /\ screensaver_active'
                 /\ (~fail /\ settings.enabled) => active_screensaver' # NoWidget
            ELSE /\ ~screensaver_active'
                 /\ active_screensaver' = NoWidget
                 /\ Monitoring']_vars

\* An effect launched by a tick exactly lock_timeout seconds after the last
\* activity, after at least one earlier tick that left it inactive
C1_Witness ==
    /\ Active
    /\ settings.lock_timeout >= 2
    /\ now - last_activity_time = settings.lock_timeout

MonitoringTimersRunning == screensaver_timer /\ progress_timer /\ activity_timer

\* C2: when the lifecycle is Active and an activity poll detects input, the
\* poll leaves the effect closed, screensaver_active False, last_activity_time
\* reset to the time of the poll and the monitoring timers running.
C2_ActivityEndsActive ==
    [][\A xp \in {"recent", "idle", "fail", "error"}, readable \in BOOLEAN, mouse \in BOOLEAN :
         (/\ Active
          /\ ActivitySeen(S, xp, readable, mouse)
          /\ ActivityPollStep(xp, readable, mouse)) =>
            /\ active_screensaver' = NoWidget
            /\ ~screensaver_active'
            /\ last_activity_time' = now
            /\ MonitoringTimersRunning']_vars

\* C3: disabling the screensaver (selecting "None", the handler that sets
\* settings['enabled'] False) leaves the three timers stopped and
\* screensaver_active False, and while it is disabled no tick activates an
\* effect.
C3_DisableStopsEverything ==
    [][/\ TypeChangedStep("None") => (AllTimersStopped' /\ ~screensaver_active')
       /\ (~settings.enabled /\ Tick) => (screensaver_active' = screensaver_active
                                          /\ active_screensaver' = active_screensaver)]_vars

Testing == is_test_mode /\ test_screensaver # NoWidget

TestFinishedStep == session'.test.exits = session.test.exits + 1

\* C5: when a test preview exits, the lifecycle keeps running with
\* is_test_mode False and the monitoring timers restarted exactly when
\* settings['enabled'] is set.
C5_TestExitResumes ==
    [][TestFinishedStep =>
          /\ ~is_test_mode'
          /\ MonitoringTimersRunning' <=> settings.enabled
          /\ running']_vars

\* Exit-handler calls agree with the state of the session in a widget slot
ExitedOnce(ss, w) ==
    CASE ss.state = "open"  -> ss.exits = 0 /\ w # NoWidget
      [] ss.state = "ended" -> ss.exits = 1 /\ w = NoWidget
      [] OTHER              -> ss.exits = 0 /\ w = NoWidget

Threshold(kind) == IF kind = "Mystify" THEN MystifyThreshold ELSE MatrixThreshold

InGrace(w) == w.kind = "Mystify" /\ now - w.screensaver_start_time < GracePeriod

Polling(slot) == Widget(S, slot) # NoWidget /\ Widget(S, slot).usb_monitor_timer

\* What the poll contract asks of a poll that finds baseline B and total T
PollContract(B, T, threshold, newB, reported) ==
    /\ newB = T
    /\ reported <=> (B # NoBaseline /\ T - B > threshold)

\* The lifecycle fallback poll keeps the contract with threshold 0
FallbackPollContract ==
    LET f == check_activity_fallback(S, TRUE)
    IN  PollContract(interrupt_baseline, irq_total, MatrixThreshold,
                     f.s.interrupt_baseline, f.detected)

\* C7 as stated: every poll of a widget or of the lifecycle fallback that
\* reads the counters records the total as the new baseline, reports nothing
\* when there was no baseline, and otherwise reports activity iff
\* T - B > threshold (0 Matrix and fallback, 50 Mystify).
C7_PollContractAsStated ==
    /\ \A slot \in Slots :
         Polling(slot) =>
            LET w == Widget(S, slot)
                r == WidgetPoll(w, TRUE, irq_total, now)
            IN  PollContract(w.usb_interrupt_baseline, irq_total, Threshold(w.kind),
                             r.w.usb_interrupt_baseline, r.emit)
    /\ FallbackPollContract

\* C7 amended: as stated, except that a Mystify poll within the first 10 s of
\* the widget's life does nothing at all (no baseline recorded, nothing
\* reported); the first poll after the grace period records the baseline.
C7_PollContract ==
    /\ \A slot \in Slots :
         Polling(slot) =>
            LET w == Widget(S, slot)
                r == WidgetPoll(w, TRUE, irq_total, now)
            IN  IF InGrace(w)
                THEN r.w = w /\ ~r.emit
                ELSE PollContract(w.usb_interrupt_baseline, irq_total, Threshold(w.kind),
                                  r.w.usb_interrupt_baseline, r.emit)
    /\ FallbackPollContract

\* A Mystify widget past its grace period whose recorded baseline lies more
\* than the threshold below the counters: the coming poll reports activity
C7_Witness ==
    /\ Polling("active")
    /\ active_screensaver.kind = "Mystify"
    /\ ~InGrace(active_screensaver)
    /\ active_screensaver.usb_interrupt_baseline >= 1
    /\ irq_total - active_screensaver.usb_interrupt_baseline > MystifyThreshold
    /\ interrupt_baseline # NoBaseline

\* C8: a poll that cannot read the counter source reports no activity and
\* changes nothing: the baseline, the widget, its poll timer and the
\* lifecycle timers are as before, so later polls still run.
C8_UnreadablePoll ==
    /\ \A slot \in Slots :
         Polling(slot) =>
            /\ ~WidgetPoll(Widget(S, slot), FALSE, irq_total, now).emit
            /\ check_usb_activity(S, slot, FALSE) = S
    /\ ~check_activity_fallback(S, FALSE).detected
    /\ check_activity_fallback(S, FALSE).s = S
    /\ activity_timer => check_user_activity(S, "fail", FALSE, FALSE) = S

\* Polls are running in the widget and in the lifecycle with baselines
\* recorded and input pending that a successful read would report
C8_Witness ==
    /\ Polling("active")
    /\ active_screensaver.kind = "Matrix"
    /\ active_screensaver.usb_interrupt_baseline # NoBaseline
    /\ irq_total > active_screensaver.usb_interrupt_baseline
    /\ activity_timer
    /\ interrupt_baseline # NoBaseline
    /\ irq_total > interrupt_baseline

\* C9: over any sequence of emergency checks the flag turns True exactly once
\* per maximal run of samples above 90 and False exactly once at the first
\* sample at or below 90 that follows, so it always tells whether the last
\* sample was above 90; a check whose sample is on the side the flag already
\* shows changes neither the flag nor the timer interval.
C9_ThrottleTransitions ==
    /\ [](/\ cpu_history.ups = cpu_history.runs
          /\ cpu_history.downs = cpu_history.recoveries
          /\ engine.is_emergency_throttled <=>
                (cpu_history.seen /\ cpu_history.last > EmergencyCpuThreshold))
    /\ [][\A sample \in Samples :
            (/\ EmergencyCheckStep(sample)
             /\ sample.ok
             /\ (sample.cpu > EmergencyCpuThreshold) <=> engine.is_emergency_throttled)
            => engine' = engine]_vars

\* Two separate runs above 90, each entered once and left once, within a
\* sequence of at least five checks
C9_Witness ==
    /\ cpu_history.runs = 2
    /\ cpu_history.recoveries = 2
    /\ cpu_history.ups = 2
    /\ cpu_history.downs = 2
    /\ cpu_history.checks >= 5
    /\ ~engine.is_emergency_throttled

\* C10: whenever is_emergency_throttled is True the animation timer interval
\* is 1000 ms, whatever target_fps is and whatever operations have run.
C10_ThrottledInterval ==
    engine.is_emergency_throttled => engine.interval = ThrottledInterval

----------------------------------------------------------------------------
\* States of the Mystify engine

Trails == {mystify.shape_trails[i] : i \in 1..Len(mystify.shape_trails)}

\* C11: in every reachable state of the Mystify engine every shape's trail
\* holds at most max(max(5, L // 4), floor(L * q)) curves, L being the
\* current trail_length and q the current quality_level, also after the
\* governor has lowered quality_level or trail_length.
C11_TrailWithinCap ==
    \A trail \in Trails :
        Len(trail) <= Max(Max(5, mystify.trail_length \div 4),
                          (mystify.trail_length * mystify.quality_level) \div 100)

\* C12: the engine has exactly mystify_shapes shapes, each with
\* max(3, mystify_complexity // 2) control points and as many velocities
\* (3 shapes of 3 points for shapes = 3 and complexity = 6), after any
\* sequence of animation updates, quality adjustments and emergency checks.
C12_ShapesPreserved ==
    /\ Len(mystify.shapes) = mystify.num_shapes
    /\ \A i \in 1..Len(mystify.shapes) :
         /\ Len(mystify.shapes[i].control_points)
                = (IF mystify.shape_complexity \div 2 < 3 THEN 3
                   ELSE mystify.shape_complexity \div 2)
         /\ Len(mystify.shapes[i].velocities) = Len(mystify.shapes[i].control_points)
    /\ (mystify.num_shapes = 3 /\ mystify.shape_complexity = 6)
          => /\ Len(mystify.shapes) = 3
             /\ \A i \in 1..3 : Len(mystify.shapes[i].control_points) = 3

\* Three shapes of three points after animation updates have filled the
\* trails, the governor has lowered quality and trail length, and an
\* emergency check has throttled the timer
C12_Witness ==
    /\ mystify.num_shapes = 3 /\ mystify.shape_complexity = 6
    /\ Len(mystify.shapes) = 3
    /\ \A trail \in Trails : Len(trail) >= 5
    /\ mystify.quality_level < 100
    /\ mystify.trail_length < 12
    /\ mystify.frame_skip_ratio > 1
    /\ engine.is_emergency_throttled

\* C13: immediately after reset_column the head is above the screen, in
\* [-100, -20], the length is within [3, 15] and the three lists have exactly
\* `length` entries; update keeps the three lists at that length.
C13_ColumnLists ==
    /\ column.op = "reset" => /\ column.head_position < 0
                              /\ column.head_position \in -100..-20
    /\ column.length \in 3..15
    /\ Len(column.characters) = column.length
    /\ Len(column.char_positions) = column.length
    /\ Len(column.char_ages) = column.length

\* A column that has fallen off the screen after a character change and has
\* just been reset to the greatest length at the highest start
C13_Witness ==
    /\ column.op = "reset"
    /\ column.length = 15
    /\ column.head_position = -100
    /\ Len(column.char_ages) = 15
    /\ column.char_ages[15] = 14

----------------------------------------------------------------------------
\* Calls that have returned

Done(fn) == calc.fn = fn /\ calc.done

\* C14: with the drift enabled, calculate_drift_position is periodic with
\* period drift_cycle_duration (at elapsed = 0 and at one cycle it returns the
\* same position), and at the midpoint of each quarter of the cycle the
\* position lies on that quarter's edge: y = margin on the top edge,
\* x = width - margin - 300 on the right, y = height - margin - 80 on the
\* bottom, x = margin on the left.
C14_DriftCycle ==
    (Done("calculate_drift_position") /\ calc.args.stats_drift) =>
        LET a == calc.args
            quarter == DriftCycleDuration \div 4
            phase == a.elapsed % DriftCycleDuration
            at(e) == calculate_drift_position(TRUE, e, a.screen_width, a.screen_height)
        IN  /\ calc.result = at(a.elapsed + DriftCycleDuration)
            /\ a.elapsed = DriftCycleDuration => calc.result = at(0)
            /\ 2 * phase = quarter => calc.result.y = 50
            /\ 2 * phase = 3 * quarter => calc.result.x = a.screen_width - 50 - 300
            /\ 2 * phase = 5 * quarter => calc.result.y = a.screen_height - 50 - 80
            /\ 2 * phase = 7 * quarter => calc.result.x = 50

\* The overlay in the middle of the bottom edge during the second cycle
C14_Witness ==
    /\ Done("calculate_drift_position")
    /\ calc.args.stats_drift
    /\ calc.args.elapsed = DriftCycleDuration + 300
    /\ calc.args.screen_width = 1920
    /\ calc.result = [x |-> 810, y |-> calc.args.screen_height - 130]

\* C15: a settings dictionary saved with save_settings and loaded with
\* load_settings into an instance holding the defaults is the dictionary that
\* was saved: every key has the same value.
C15_SettingsRoundTrip ==
    (Done("load_settings") /\ calc.args.file.exists) =>
        /\ DOMAIN calc.result = DOMAIN calc.args.saved
        /\ \A k \in DOMAIN calc.args.saved : calc.result[k] = calc.args.saved[k]

\* Settings that differ from the defaults in every key, read back from the
\* file
C15_Witness ==
    /\ Done("load_settings")
    /\ calc.args.file.exists
    /\ \A k \in DOMAIN V4Defaults : calc.args.saved[k] # V4Defaults[k]
    /\ calc.args.file.text.slide_duration = <<"0", ".", "2", "5">>
    /\ calc.result.lock_timeout = [i |-> 1200]

\* The k-th number of a version string, 0 past its end
Component(version, k) ==
    LET parts == SplitDots(version)
    IN  IF k <= Len(parts) THEN ToInteger(parts[k]) ELSE 0

WellFormed(version) ==
    \A i \in 1..Len(SplitDots(version)) : IsInteger(SplitDots(version)[i])

\* C16: is_newer_version(latest, current) is True iff both strings split on
\* '.' into integers and, the shorter list padded with zeros, latest's list
\* is lexicographically greater; it is False for equal versions, for an older
\* latest and whenever a component is not an integer.
C16_NewerVersion ==
    Done("is_newer_version") =>
        LET latest == calc.args.latest
            current == calc.args.current
            places == 1..(MaxVersionLen + 1)
        IN  /\ calc.result <=>
                  /\ WellFormed(latest) /\ WellFormed(current)
                  /\ \E k \in places :
                        /\ Component(latest, k) > Component(current, k)
                        /\ \A j \in 1..(k - 1) :
                              Component(latest, j) = Component(current, j)
            /\ latest = current => ~calc.result
            /\ (latest = <<"1", "0">> /\ current = <<"2">>) => calc.result
            /\ (latest = <<"2">> /\ current = <<"1", "0">>) => ~calc.result
            /\ (latest = <<"1", ".", "0">> /\ current = <<"1">>) => ~calc.result
            /\ (latest = <<"1", ".", "1">> /\ current = <<"1">>) => calc.result
            /\ (\E i \in 1..Len(latest) : latest[i] = "a") => ~calc.result
            /\ (latest = <<>> \/ current = <<>>) => ~calc.result

\* "1.1" is newer than "1": the shorter version is padded with a zero
C16_Witness ==
    /\ Done("is_newer_version")
    /\ calc.args.latest = <<"1", ".", "1">>
    /\ calc.args.current = <<"1">>
    /\ calc.result

\* C17: should_check_for_updates returns True when last_update_check is empty
\* or is not a valid ISO date, and otherwise True iff the number of whole days
\* since the last check is at least update_check_frequency (False for a check
\* made yesterday with frequency 30, True for one made 31 days ago).
C17_UpdateCheckDue ==
    Done("should_check_for_updates") =>
        LET last == calc.args.last_check
            today == calc.args.today
            frequency == calc.args.frequency
            readable == last.text = "iso" /\ ValidDate(last)
        IN  /\ ~readable => calc.result
            /\ readable =>
                 (calc.result <=> Hours(today) - Hours(last) >= 24 * frequency)
            /\ (/\ last = IsoText([month |-> 1, day |-> 1, hour |-> 12])
                /\ today = [month |-> 1, day |-> 2, hour |-> 12]
                /\ frequency = 30) => ~calc.result
            /\ (/\ last = IsoText([month |-> 1, day |-> 28, hour |-> 0])
                /\ today = [month |-> 2, day |-> 28, hour |-> 12]
                /\ frequency = 30) => calc.result

\* A check made 30 days and 12 hours ago with frequency 30 is due
C17_Witness ==
    /\ Done("should_check_for_updates")
    /\ calc.args.last_check = IsoText([month |-> 1, day |-> 1, hour |-> 0])
    /\ calc.args.today = [month |-> 1, day |-> 31, hour |-> 12]
    /\ calc.args.frequency = 30
    /\ calc.result

----------------------------------------------------------------------------
\* The effect the stored settings select: nothing when disabled, otherwise
\* slideshow before mystify before matrix, Matrix when no mode is set

Selected ==
    CASE ~settings.enabled -> "none"
      [] settings.slideshow_mode -> "Slideshow"
      [] settings.mystify_mode -> "Mystify"
      [] OTHER -> "Matrix"

\* C18: the effect launched on activation is a function of the stored
\* settings only (nothing when disabled, otherwise priority slideshow >
\* mystify > matrix with Matrix as fallback) and never of the state of the
\* GUI: with equal settings, any dropdown selection and a shown or hidden (or
\* never shown) window give the same effect with the same parameters.
C18_LaunchFromSettings ==
    /\ [](\A text \in ComboItems, shown \in BOOLEAN, fail \in BOOLEAN :
            activate_screensaver([S EXCEPT !.combo = text, !.visible = shown],
                                 fail).active_screensaver
                = activate_screensaver(S, fail).active_screensaver)
    /\ [][\A fail \in BOOLEAN :
            (TickStep(fail) /\ ~screensaver_active /\ screensaver_active') =>
                IF fail \/ Selected = "none"
                THEN active_screensaver' = NoWidget
                ELSE /\ active_screensaver'.kind = Selected
                     /\ active_screensaver'.open
                     /\ active_screensaver'.screensaver_start_time = now'
                     /\ active_screensaver'.usb_monitor_timer
                            = (Selected = "Matrix"
                                 \/ (Selected = "Mystify" /\ ~settings.show_stats))]_vars

\* A background start whose settings name Matrix and Slideshow: the dropdown
\* shows Matrix, the effect launched is the slideshow
C18_Witness ==
    /\ settings.matrix_mode /\ settings.slideshow_mode
    /\ combo = "Matrix"
    /\ ~visible
    /\ screensaver_active
    /\ active_screensaver # NoWidget
    /\ active_screensaver.kind = "Slideshow"

\* C19: quality_level is in [0.3, 1.0] in every reachable state of the
\* Mystify engine, under any sequence of adaptive adjustments (frame-time,
\* CPU and memory steps) and of the power-saving and energy-efficiency caps.
C19_QualityRange ==
    /\ mystify.quality_level >= 30
    /\ mystify.quality_level <= 100

\* The lowest quality, reached in power-saving mode after CPU and memory
\* steps, the last of which shortened the trails
C19_Witness ==
    /\ mystify.quality_level = 30
    /\ mystify.power_saving_mode
    /\ mystify.energy_efficient
    /\ mystify.has_last_activity_check
    /\ mystify.trail_length < 12
    /\ mystify.frame_skip_ratio > 1

\* C20: on slow frames (average frame time above twice the target) the
\* frame-time step lowers quality_level by 0.05, bounded below, and leaves it
\* no higher than it was, for every quality_level the engine can reach.
C20_FrameStepNeverRaises ==
    /\ FrameTimeStep(mystify.quality_level) <= mystify.quality_level
    /\ FrameTimeStep(mystify.quality_level) >= mystify.quality_level - 5

\* C21: every shape of the Mystify engine has color_hue in [0, 360) and
\* curve_tension in [0.2, 1.0], right after init_shapes and ever after.
C21_ColourRanges ==
    \A i \in 1..Len(colours) :
        /\ 0 <= colours[i].color_hue /\ colours[i].color_hue < 360
        /\ 20 <= colours[i].curve_tension /\ colours[i].curve_tension <= 100

\* C22: in power-saving mode a skipped animation tick is followed by a tick
\* that updates the shapes, so the animation keeps advancing: from every
\* state a tick that is not skipped is eventually reached.
C22_PowerSavingAdvances ==
    /\ [][SkipsFrame(mystify) => ~SkipsFrame(mystify')]_vars
    /\ [](mystify.power_saving_mode => <>(~SkipsFrame(mystify)))

\* C23: while the preferences window is visible, screensaver_timer,
\* progress_timer and activity_timer are all inactive.
C23_TimersStoppedWhileVisible ==
    visible => ~screensaver_timer /\ ~progress_timer /\ ~activity_timer

\* C24: draw_column draws at most 10 characters of a column per frame,
\* whatever the column's length, and draws no character whose position is
\* outside [-50, screen_height + 50].
C24_DrawCap ==
    column.op = "paint" =>
        /\ Len(column.drawn) <= 10
        /\ \A k \in 1..Len(column.drawn) :
              /\ column.drawn[k].pos >= -50
              /\ column.drawn[k].pos <= column.screen_height + 50

\* C25: in every Active state, whatever the effect and its configuration, a
\* periodic ActivitySignal poll is running: the lifecycle's activity_timer or
\* the effect widget's usb_monitor_timer.
C25_PollRunsWhileActive ==
    Active => activity_timer \/ active_screensaver.usb_monitor_timer

\* C26: at most one effect instance exists: activate_screensaver is executed
\* only when no effect object is open, also when close events and enable
\* toggles arrive while a preview is running, and an activated effect and a
\* preview never exist together.
C26_SingleEffect ==
    /\ [](active_screensaver = NoWidget \/ test_screensaver = NoWidget)
    /\ [][\A fail \in BOOLEAN :
            (TickStep(fail) /\ ~screensaver_active /\ screensaver_active')
                => ~EffectOpen(S)]_vars

\* a close event arrived during a preview and restarted the timers, and the
\* timeout has passed since
C26_Witness ==
    /\ test_screensaver # NoWidget /\ test_screensaver.open
    /\ ~visible /\ screensaver_timer /\ activity_timer
    /\ now - last_activity_time > settings.lock_timeout

\* C27: is_test_mode is True only while a test effect is running: every way
\* out of test_matrix that opens no preview, or whose preview has ended,
\* leaves is_test_mode False.
C27_TestModeOnlyDuringTest ==
    is_test_mode => test_screensaver # NoWidget

\* C28: when the launch of the effect raises inside activate_*_screensaver,
\* the lifecycle does not stay Active without an effect: after the tick
\* screensaver_active is False again and the timeout timer is running.
C28_FailedLaunchRecovers ==
    [][TickStep(TRUE) => ~screensaver_active' /\ screensaver_timer']_vars

\* C29: the v4 controller launches the screensaver at most once per idle
\* period: after a launch, a timeout of screensaver_timer starts another
\* process only when the previous one has ended and the window has been
\* shown and hidden again.
C29_LaunchOncePerIdlePeriod ==
    [][\A fail \in BOOLEAN :
         (V4TimeoutStep(fail) /\ v4.screensaver_active /\ v4'.launches > v4.launches)
            => v4.processes = 0 /\ v4.shown_since_launch]_vars

\* C30: with default settings, once the load is light for good (fast frames,
\* CPU <= 40 %, memory <= 70 %), quality_level eventually returns to 1.0 and
\* stays there.
C30_QualityRecovers ==
    environment.light ~> [](mystify.quality_level = 100)

====
